---- MODULE Spec2Model ----
(***************************************************************************)
(* Model of the column-pair matching engine of EDMS (src/main.go):         *)
(* standardKey, levenshteinDistance, isFuzzyMatch and the loop of          *)
(* matchHandler.  Strings are sequences of one-character strings; Go's     *)
(* zero-based indices are kept, and a slice s is read at index i as        *)
(* s[i + 1].                                                               *)
(***************************************************************************)
EXTENDS Integers, Sequences, FiniteSets, TLC

VARIABLES
    call, args, ret,                    \* one call of a pure function
    sheet1Data, sheet2Data, req,        \* matchHandler: the two sheets, the request
    c1, c2, r1,                         \* matchHandler: loop counters
    keyMap2, matches, matchedPairs,     \* matchHandler: per-pair index, records, seen pairs
    allMatches, totalComparisons, pc,   \* matchHandler: groups, counter, position
    found,                              \* matchHandler: ok1, ok2 of the two lookups
    dataStore, storeMutex,              \* the store of sheets and its RWMutex
    hpc, hloc, resp                     \* uploadHandler, dataHandler: position, locals, status

calcVars == <<call, args, ret>>
engineVars == <<sheet1Data, sheet2Data, req, c1, c2, r1, keyMap2, matches,
                matchedPairs, allMatches, totalComparisons, pc>>
serverVars == <<found, dataStore, storeMutex, hpc, hloc, resp>>
vars == <<call, args, ret, sheet1Data, sheet2Data, req, c1, c2, r1, keyMap2,
          matches, matchedPairs, allMatches, totalComparisons, pc,
          found, dataStore, storeMutex, hpc, hloc, resp>>

(***************************************************************************)
(* Bounds of the model.                                                    *)
(***************************************************************************)
MaxLevLen == 4
MaxRawLen == 2
MaxCols == 2
MaxRows == 2

(***************************************************************************)
(* Strings.                                                                *)
(***************************************************************************)
RECURSIVE SeqsUpTo(_, _)
SeqsUpTo(alphabet, n) ==
    IF n = 0 THEN {<<>>}
    ELSE LET shorter == SeqsUpTo(alphabet, n - 1)
         IN  shorter \cup {Append(s, ch) : s \in shorter, ch \in alphabet}

\* strings.ToLower on one character of the model's alphabet
ToLowerChar(ch) ==
    CASE ch = "A" -> "a"
      [] ch = "B" -> "b"
      [] OTHER -> ch

ToLower(s) == [i \in 1..Len(s) |-> ToLowerChar(s[i])]

IsSpace(ch) == ch = " "

\* strings.TrimSpace: drop leading and trailing white space
RECURSIVE TrimLeft(_)
TrimLeft(s) ==
    IF s # <<>> /\ IsSpace(Head(s)) THEN TrimLeft(Tail(s)) ELSE s

RECURSIVE TrimRight(_)
TrimRight(s) ==
    IF s # <<>> /\ IsSpace(s[Len(s)]) THEN TrimRight(SubSeq(s, 1, Len(s) - 1)) ELSE s

TrimSpace(s) == TrimRight(TrimLeft(s))

standardKey(val) == TrimSpace(ToLower(val))

(***************************************************************************)
(* levenshteinDistance, with its two rolling rows v0 and v1.               *)
(***************************************************************************)
min(a, b, c) ==
    IF a < b
    THEN (IF a < c THEN a ELSE c)
    ELSE (IF b < c THEN b ELSE c)

max(a, b) == IF a > b THEN a ELSE b

\* the inner loop, for j := 1; j <= len(s2); j++
RECURSIVE LevInnerLoop(_, _, _, _, _, _)
LevInnerLoop(s1, s2, i, j, v0, v1) ==
    IF j > Len(s2) THEN v1
    ELSE LET cost == IF s1[i] = s2[j] THEN 0 ELSE 1
             v1n == [v1 EXCEPT ![j] = min(v1[j - 1] + 1, v0[j] + 1, v0[j - 1] + cost)]
         IN  LevInnerLoop(s1, s2, i, j + 1, v0, v1n)

\* the outer loop without copy(v0, v1): v0 stays the first row
RECURSIVE LevOuterLoopNoCopy(_, _, _, _, _)
LevOuterLoopNoCopy(s1, s2, i, v0, v1) ==
    IF i > Len(s1) THEN v1[Len(s2)]
    ELSE LET v1n == LevInnerLoop(s1, s2, i, 1, v0, [v1 EXCEPT ![0] = i])
         IN  LevOuterLoopNoCopy(s1, s2, i + 1, v0, v1n)

\* the outer loop, for i := 1; i <= len(s1); i++ ; copy(v0, v1) ends each round
RECURSIVE LevOuterLoop(_, _, _, _, _)
LevOuterLoop(s1, s2, i, v0, v1) ==
    IF i > Len(s1) THEN v1[Len(s2)]
    ELSE LET v1n == LevInnerLoop(s1, s2, i, 1, v0, [v1 EXCEPT ![0] = i])
         IN  LevOuterLoop(s1, s2, i + 1, v1n, v1n)

\* levenshteinDistance without the test len(s1) == 0
levenshteinDistanceNoEmptyCheck(s1, s2) ==
    IF s1 = s2 THEN 0
    ELSE IF Len(s2) = 0 THEN Len(s1)
    ELSE LevOuterLoop(s1, s2, 1,
                      [i \in 0..Len(s2) |-> i],
                      [i \in 0..Len(s2) |-> 0])

levenshteinDistance(s1, s2) ==
    IF s1 = s2 THEN 0
    ELSE IF Len(s1) = 0 THEN Len(s2)
    ELSE IF Len(s2) = 0 THEN Len(s1)
    ELSE LevOuterLoop(s1, s2, 1,
                      [i \in 0..Len(s2) |-> i],
                      [i \in 0..Len(s2) |-> 0])

\* isFuzzyMatch with len(s1) in the place of maxLen
isFuzzyMatchLenOfFirst(val1, val2, threshold) ==
    LET s1 == standardKey(val1)
        s2 == standardKey(val2)
    IN  IF s1 = s2 THEN TRUE
        ELSE IF s1 = <<>> \/ s2 = <<>> THEN FALSE
        ELSE levenshteinDistance(s1, s2) * 100 <= Len(s1) * threshold

\* isFuzzyMatch with < in the place of <=
isFuzzyMatchStrict(val1, val2, threshold) ==
    LET s1 == standardKey(val1)
        s2 == standardKey(val2)
        maxLen == max(Len(s1), Len(s2))
    IN  IF s1 = s2 THEN TRUE
        ELSE IF s1 = <<>> \/ s2 = <<>> THEN FALSE
        ELSE IF maxLen = 0 THEN TRUE
        ELSE levenshteinDistance(s1, s2) * 100 < maxLen * threshold

\* isFuzzyMatch without the test for an empty key
isFuzzyMatchNoBlankGuard(val1, val2, threshold) ==
    LET s1 == standardKey(val1)
        s2 == standardKey(val2)
        maxLen == max(Len(s1), Len(s2))
    IN  IF s1 = s2 THEN TRUE
        ELSE IF maxLen = 0 THEN TRUE
        ELSE levenshteinDistance(s1, s2) * 100 <= maxLen * threshold

isFuzzyMatch(val1, val2, threshold) ==
    LET s1 == standardKey(val1)
        s2 == standardKey(val2)
        maxLen == max(Len(s1), Len(s2))
    IN  IF s1 = s2 THEN TRUE
        ELSE IF s1 = <<>> \/ s2 = <<>> THEN FALSE
        ELSE IF maxLen = 0 THEN TRUE
        ELSE levenshteinDistance(s1, s2) * 100 <= maxLen * threshold

(***************************************************************************)
(* matchHandler: the data it works on.                                     *)
(***************************************************************************)
RowOffset == 2

DigitChar(d) == <<"0", "1", "2", "3", "4", "5", "6", "7", "8", "9">>[d + 1]

\* the %d verb of fmt.Sprintf for a non-negative integer
RECURSIVE FormatInt(_)
FormatInt(n) ==
    IF n < 10 THEN <<DigitChar(n)>>
    ELSE Append(FormatInt(n \div 10), DigitChar(n % 10))

\* pairKey := fmt.Sprintf("%d-%d", row1Idx, row2Idx)
pairKey(row1Idx, row2Idx) == FormatInt(row1Idx) \o <<"-">> \o FormatInt(row2Idx)

MatchResult(row1Idx, row2Idx, val1, val2, isFuzzy) ==
    [OriginalRow1 |-> row1Idx, OriginalRow2 |-> row2Idx,
     Val1 |-> val1, Val2 |-> val2, IsFuzzy |-> isFuzzy]

MatchGroup(tab1, tab2, header1, header2, ms) ==
    [Tab1 |-> tab1, Tab2 |-> tab2, Header1 |-> header1, Header2 |-> header2,
     Matches |-> ms]

\* the index putting a row in front of the rows of its key
MapPrepend(km, key, v) ==
    IF key \in DOMAIN km THEN [km EXCEPT ![key] = <<v>> \o @]
    ELSE km @@ (key :> <<v>>)

\* keyMap2[key] = append(keyMap2[key], v)
MapAppend(km, key, v) ==
    IF key \in DOMAIN km THEN [km EXCEPT ![key] = Append(@, v)]
    ELSE km @@ (key :> <<v>>)

\* the index of column c2 of sheet 2: for r2, row2 := range sheet2Data.Rows
RECURSIVE KeyMapLoop(_, _, _, _)
KeyMapLoop(rows, col2, r2, km) ==
    IF r2 >= Len(rows) THEN km
    ELSE LET row2 == rows[r2 + 1]
         IN  IF col2 < Len(row2)
             THEN LET key == standardKey(row2[col2 + 1])
                  IN  IF key # <<>>
                      THEN KeyMapLoop(rows, col2, r2 + 1, MapAppend(km, key, r2 + RowOffset))
                      ELSE KeyMapLoop(rows, col2, r2 + 1, km)
             ELSE KeyMapLoop(rows, col2, r2 + 1, km)

BuildKeyMap2(rows, col2) == KeyMapLoop(rows, col2, 0, <<>>)

\* 1. Exact/Standard Match: for _, row2Idx := range row2Indices
RECURSIVE ExactLoop(_, _, _, _, _, _, _, _)
ExactLoop(row2Indices, k, row1Idx, val1, rows2, col2, ms, mp) ==
    IF k > Len(row2Indices) THEN [matches |-> ms, matchedPairs |-> mp]
    ELSE LET row2Idx == row2Indices[k]
             pk == pairKey(row1Idx, row2Idx)
         IN  IF pk \in mp
             THEN ExactLoop(row2Indices, k + 1, row1Idx, val1, rows2, col2, ms, mp)
             ELSE LET val2 == rows2[row2Idx - RowOffset + 1][col2 + 1]
                  IN  ExactLoop(row2Indices, k + 1, row1Idx, val1, rows2, col2,
                                Append(ms, MatchResult(row1Idx, row2Idx, val1, val2, FALSE)),
                                mp \cup {pk})

ExactPass(km, row1Idx, val1, rows2, col2, ms, mp) ==
    LET key1 == standardKey(val1)
    IN  IF key1 \in DOMAIN km
        THEN ExactLoop(km[key1], 1, row1Idx, val1, rows2, col2, ms, mp)
        ELSE [matches |-> ms, matchedPairs |-> mp]

\* the fuzzy loop without the test of matchedPairs
RECURSIVE FuzzyLoopNoSeenCheck(_, _, _, _, _, _, _, _)
FuzzyLoopNoSeenCheck(rows2, r2, row1Idx, val1, col2, threshold, ms, mp) ==
    IF r2 >= Len(rows2) THEN [matches |-> ms, matchedPairs |-> mp]
    ELSE LET row2 == rows2[r2 + 1]
             row2Idx == r2 + RowOffset
             pk == pairKey(row1Idx, row2Idx)
         IN  IF col2 >= Len(row2)
             THEN FuzzyLoopNoSeenCheck(rows2, r2 + 1, row1Idx, val1, col2, threshold, ms, mp)
             ELSE LET val2 == row2[col2 + 1]
                  IN  IF isFuzzyMatch(val1, val2, threshold)
                      THEN FuzzyLoopNoSeenCheck(rows2, r2 + 1, row1Idx, val1, col2, threshold,
                                     Append(ms, MatchResult(row1Idx, row2Idx, val1, val2, TRUE)),
                                     mp \cup {pk})
                      ELSE FuzzyLoopNoSeenCheck(rows2, r2 + 1, row1Idx, val1, col2, threshold,
                                                ms, mp)

\* 2. Fuzzy Match: for r2, row2 := range sheet2Data.Rows
RECURSIVE FuzzyLoop(_, _, _, _, _, _, _, _)
FuzzyLoop(rows2, r2, row1Idx, val1, col2, threshold, ms, mp) ==
    IF r2 >= Len(rows2) THEN [matches |-> ms, matchedPairs |-> mp]
    ELSE LET row2 == rows2[r2 + 1]
             row2Idx == r2 + RowOffset
             pk == pairKey(row1Idx, row2Idx)
         IN  IF pk \in mp
             THEN FuzzyLoop(rows2, r2 + 1, row1Idx, val1, col2, threshold, ms, mp)
             ELSE IF col2 >= Len(row2)
             THEN FuzzyLoop(rows2, r2 + 1, row1Idx, val1, col2, threshold, ms, mp)
             ELSE LET val2 == row2[col2 + 1]
                  IN  IF isFuzzyMatch(val1, val2, threshold)
                      THEN FuzzyLoop(rows2, r2 + 1, row1Idx, val1, col2, threshold,
                                     Append(ms, MatchResult(row1Idx, row2Idx, val1, val2, TRUE)),
                                     mp \cup {pk})
                      ELSE FuzzyLoop(rows2, r2 + 1, row1Idx, val1, col2, threshold, ms, mp)

\* the fuzzy pass run whatever req.UseFuzzy says
FuzzyPassAlways(useFuzzy, rows2, row1Idx, val1, col2, threshold, ms, mp) ==
    FuzzyLoop(rows2, 0, row1Idx, val1, col2, threshold, ms, mp)

FuzzyPass(useFuzzy, rows2, row1Idx, val1, col2, threshold, ms, mp) ==
    IF useFuzzy
    THEN FuzzyLoop(rows2, 0, row1Idx, val1, col2, threshold, ms, mp)
    ELSE [matches |-> ms, matchedPairs |-> mp]

\* the row body handing key1 on where val1 belongs
RowBodyKeyForValue(row1, row1Idx, col1, col2, km, rows2, useFuzzy, threshold, ms, mp) ==
    IF col1 >= Len(row1) THEN [matches |-> ms, matchedPairs |-> mp]
    ELSE LET val1 == standardKey(row1[col1 + 1])
             ex == ExactPass(km, row1Idx, val1, rows2, col2, ms, mp)
         IN  FuzzyPass(useFuzzy, rows2, row1Idx, val1, col2, threshold,
                       ex.matches, ex.matchedPairs)

\* the row body taking a missing cell of sheet 1 for an empty one
RowBodyPadMissing(row1, row1Idx, col1, col2, km, rows2, useFuzzy, threshold, ms, mp) ==
    LET val1 == IF col1 >= Len(row1) THEN <<>> ELSE row1[col1 + 1]
        ex == ExactPass(km, row1Idx, val1, rows2, col2, ms, mp)
    IN  FuzzyPass(useFuzzy, rows2, row1Idx, val1, col2, threshold,
                  ex.matches, ex.matchedPairs)

\* the body of for r1, row1 := range sheet1Data.Rows
RowBody(row1, row1Idx, col1, col2, km, rows2, useFuzzy, threshold, ms, mp) ==
    IF col1 >= Len(row1) THEN [matches |-> ms, matchedPairs |-> mp]
    ELSE LET val1 == row1[col1 + 1]
             ex == ExactPass(km, row1Idx, val1, rows2, col2, ms, mp)
         IN  FuzzyPass(useFuzzy, rows2, row1Idx, val1, col2, threshold,
                       ex.matches, ex.matchedPairs)

(***************************************************************************)
(* Inputs.                                                                 *)
(***************************************************************************)
LevAlphabet == {"a", "b"}
RawAlphabet == {"a", "b", "A", " "}
Thresholds == 0..100

\* cell values of the two sheets: blank, white space only, differing in case,
\* and one edit apart
CellsA == {<<" ">>, <<"A", "b">>}
CellsB == {<<>>, <<"a">>, <<"a", "b">>}
EngineThresholds == {0, 50, 100}

\* the header of column i of a sheet, all headers of a sheet distinct
HeadersOf(tab, n) == [i \in 1..n |-> <<tab, i - 1>>]

\* SheetData: Headers and Rows, the rows of any length (ragged)
Sheets(tab, cells) ==
    {[Headers |-> HeadersOf(tab, n), Rows |-> rows] :
        n \in 1..MaxCols, rows \in SeqsUpTo(SeqsUpTo(cells, MaxCols), MaxRows)}

\* MatchRequest
Requests ==
    {[Sheet1 |-> "Sheet1", Sheet2 |-> "Sheet2", UseFuzzy |-> FALSE, FuzzyThreshold |-> 0]}
    \cup {[Sheet1 |-> "Sheet1", Sheet2 |-> "Sheet2", UseFuzzy |-> TRUE, FuzzyThreshold |-> t] :
            t \in EngineThresholds}

NoSheet == [Headers |-> <<>>, Rows |-> <<>>]
NoRequest == [Sheet1 |-> "", Sheet2 |-> "", UseFuzzy |-> FALSE, FuzzyThreshold |-> 0]

CalcIdle == call = "none" /\ args = <<>> /\ ret = 0

\* the handlers and the store
Uploaders == {"u1", "u2"}
DataReaders == {"d1"}
MatchProc == "m"
None == "none"
EmptyStore == [n \in {} |-> 0]
FreeMutex == [writer |-> None, pending |-> None, readers |-> {}]

ServerQuiet ==
    /\ dataStore = EmptyStore
    /\ storeMutex = FreeMutex
    /\ hpc = [p \in Uploaders \cup DataReaders |-> "idle"]
    /\ hloc = [p \in Uploaders \cup DataReaders |-> None]
    /\ resp = [p \in Uploaders \cup DataReaders |-> 0]

EngineIdle ==
    /\ sheet1Data = NoSheet /\ sheet2Data = NoSheet /\ req = NoRequest
    /\ c1 = 0 /\ c2 = 0 /\ r1 = 0
    /\ keyMap2 = <<>> /\ matches = <<>> /\ matchedPairs = {}
    /\ allMatches = <<>> /\ totalComparisons = 0 /\ pc = "idle"

(***************************************************************************)
(* The pure functions, each applied to inputs drawn at Init.               *)
(***************************************************************************)
InitLev ==
    /\ call = "args"
    /\ args \in SeqsUpTo(LevAlphabet, MaxLevLen) \X SeqsUpTo(LevAlphabet, MaxLevLen)
    /\ ret = 0
    /\ EngineIdle
    /\ found = <<FALSE, FALSE>>
    /\ ServerQuiet

CallLevenshteinDistance ==
    /\ call = "args"
    /\ call' = "levenshteinDistance"
    /\ ret' = levenshteinDistance(args[1], args[2])
    /\ UNCHANGED <<args, engineVars, serverVars>>

NextLev == CallLevenshteinDistance

SpecLev == InitLev /\ [][NextLev]_vars

InitFuzzy ==
    /\ call = "args"
    /\ args \in SeqsUpTo(RawAlphabet, MaxRawLen) \X SeqsUpTo(RawAlphabet, MaxRawLen)
                \X Thresholds
    /\ ret = 0
    /\ EngineIdle
    /\ found = <<FALSE, FALSE>>
    /\ ServerQuiet

CallIsFuzzyMatch ==
    /\ call = "args"
    /\ call' = "isFuzzyMatch"
    /\ ret' = isFuzzyMatch(args[1], args[2], args[3])
    /\ UNCHANGED <<args, engineVars, serverVars>>

NextFuzzy == CallIsFuzzyMatch

SpecFuzzy == InitFuzzy /\ [][NextFuzzy]_vars

(***************************************************************************)
(* matchHandler from the point where both sheets were found (line 243),    *)
(* one action per loop head and per row of sheet 1.                        *)
(***************************************************************************)
numCols1 == Len(sheet1Data.Headers)
numCols2 == Len(sheet2Data.Headers)

InitMatch ==
    /\ CalcIdle
    /\ sheet1Data \in Sheets("Sheet1", CellsA)
    /\ sheet2Data \in Sheets("Sheet2", CellsB)
    /\ req \in Requests
    /\ c1 = 0 /\ c2 = 0 /\ r1 = 0
    /\ keyMap2 = <<>> /\ matches = <<>>
    /\ matchedPairs = {}
    /\ allMatches = <<>>
    /\ totalComparisons = 0
    /\ pc = "c1loop"
    /\ found = <<TRUE, TRUE>>
    /\ ServerQuiet

\* the inner loop entered without c2 := 0
MatchEnterColumn1NoReset ==
    /\ pc = "c1loop" /\ c1 < numCols1
    /\ pc' = "c2loop"
    /\ UNCHANGED <<calcVars, serverVars, sheet1Data, sheet2Data, req,
                   c1, c2, r1, keyMap2, matches,
                   matchedPairs, allMatches, totalComparisons>>

\* for c1 := 0; c1 < numCols1; c1++ : the test holds, the inner loop starts
MatchEnterColumn1 ==
    /\ pc = "c1loop" /\ c1 < numCols1
    /\ c2' = 0
    /\ pc' = "c2loop"
    /\ UNCHANGED <<calcVars, serverVars, sheet1Data, sheet2Data, req,
                   c1, r1, keyMap2, matches,
                   matchedPairs, allMatches, totalComparisons>>

\* the outer loop is over: the groups are the response
MatchRespond ==
    /\ pc = "c1loop" /\ c1 >= numCols1
    /\ pc' = "done"
    /\ UNCHANGED <<calcVars, serverVars, sheet1Data, sheet2Data, req,
                   c1, c2, r1, keyMap2, matches,
                   matchedPairs, allMatches, totalComparisons>>

\* for c2 := 0; c2 < numCols2; c2++ : the test holds; lines 252-263
MatchBeginPair ==
    /\ pc = "c2loop" /\ c2 < numCols2
    /\ totalComparisons' = totalComparisons + 1
    /\ matches' = <<>>
    /\ keyMap2' = BuildKeyMap2(sheet2Data.Rows, c2)
    /\ r1' = 0
    /\ pc' = "rows"
    /\ UNCHANGED <<calcVars, serverVars, sheet1Data, sheet2Data, req,
                   c1, c2, matchedPairs, allMatches>>

\* the inner loop is over: c1++
MatchNextColumn1 ==
    /\ pc = "c2loop" /\ c2 >= numCols2
    /\ c1' = c1 + 1
    /\ pc' = "c1loop"
    /\ UNCHANGED <<calcVars, serverVars, sheet1Data, sheet2Data, req,
                   c2, r1, keyMap2, matches,
                   matchedPairs, allMatches, totalComparisons>>

\* one round of for r1, row1 := range sheet1Data.Rows; lines 265-312
MatchRow ==
    /\ pc = "rows" /\ r1 < Len(sheet1Data.Rows)
    /\ LET out == RowBody(sheet1Data.Rows[r1 + 1], r1 + RowOffset, c1, c2, keyMap2,
                          sheet2Data.Rows, req.UseFuzzy, req.FuzzyThreshold,
                          matches, matchedPairs)
       IN  /\ matches' = out.matches
           /\ matchedPairs' = out.matchedPairs
    /\ r1' = r1 + 1
    /\ UNCHANGED <<calcVars, serverVars, sheet1Data, sheet2Data, req,
                   c1, c2, keyMap2, allMatches,
                   totalComparisons, pc>>

\* the group put in front of the groups
AppendGroupFront(groups, ms, rq, headers1, headers2, col1, col2) ==
    IF Len(ms) > 0
    THEN <<MatchGroup(rq.Sheet1, rq.Sheet2, headers1[col1 + 1], headers2[col2 + 1], ms)>>
             \o groups
    ELSE groups

\* the group appended without the test len(matches) > 0
AppendGroupAlways(groups, ms, rq, headers1, headers2, col1, col2) ==
    Append(groups, MatchGroup(rq.Sheet1, rq.Sheet2,
                              headers1[col1 + 1], headers2[col2 + 1], ms))

\* the group of the pair, lines 314-322
AppendGroup(groups, ms, rq, headers1, headers2, col1, col2) ==
    IF Len(ms) > 0
    THEN Append(groups, MatchGroup(rq.Sheet1, rq.Sheet2,
                                   headers1[col1 + 1], headers2[col2 + 1], ms))
    ELSE groups

\* the rows are done: the group is appended if it has a record; c2++
MatchEndPair ==
    /\ pc = "rows" /\ r1 >= Len(sheet1Data.Rows)
    /\ allMatches' = AppendGroup(allMatches, matches, req, sheet1Data.Headers,
                                 sheet2Data.Headers, c1, c2)
    /\ c2' = c2 + 1
    /\ pc' = "c2loop"
    /\ UNCHANGED <<calcVars, serverVars, sheet1Data, sheet2Data, req,
                   c1, r1, keyMap2, matches,
                   matchedPairs, totalComparisons>>

NextMatch ==
    \/ MatchEnterColumn1
    \/ MatchRespond
    \/ MatchBeginPair
    \/ MatchNextColumn1
    \/ MatchRow
    \/ MatchEndPair

SpecMatch == InitMatch /\ [][NextMatch]_vars

(***************************************************************************)
(* matchHandler scheduled fairly: the handler's goroutine keeps running, and *)
(* no step of the loop blocks.  The sheets vary in shape (columns, rows,   *)
(* ragged rows), their cells are all alike.                                *)
(***************************************************************************)
ShapeCellsA == {<<"A", "b">>}
ShapeCellsB == {<<"a">>}

InitMatchFair ==
    /\ CalcIdle
    /\ sheet1Data \in Sheets("Sheet1", ShapeCellsA)
    /\ sheet2Data \in Sheets("Sheet2", ShapeCellsB)
    /\ req \in Requests
    /\ c1 = 0 /\ c2 = 0 /\ r1 = 0
    /\ keyMap2 = <<>> /\ matches = <<>>
    /\ matchedPairs = {}
    /\ allMatches = <<>>
    /\ totalComparisons = 0
    /\ pc = "c1loop"
    /\ found = <<TRUE, TRUE>>
    /\ ServerQuiet

SpecMatchFair == InitMatchFair /\ [][NextMatch]_vars /\ WF_vars(NextMatch)

(***************************************************************************)
(* The server: uploadHandler, matchHandler and dataHandler as concurrent   *)
(* requests on dataStore and storeMutex.  A workbook maps each sheet name  *)
(* to its rows, the header row first.                                      *)
(***************************************************************************)
WorkbookX ==
    [S1 |-> <<HeadersOf("S1", 1), << <<"A", "b">> >> >>,
     S2 |-> <<HeadersOf("S2", 1), << <<"a", "b">> >> >>]

WorkbookY ==
    [S2 |-> <<HeadersOf("S2", 1), << <<"a">> >> >>,
     S3 |-> <<HeadersOf("S3", 1), << <<"a", "b">> >> >>,
     S4 |-> <<>>]

Workbooks == {WorkbookX, WorkbookY}

ServerRequests ==
    {[Sheet1 |-> a, Sheet2 |-> b, UseFuzzy |-> TRUE, FuzzyThreshold |-> 50] :
        a \in {"S1", "S2"}, b \in {"S2", "S3"}}

DataSheetNames == {"S1", "S2"}

\* headers := rows[0]; dataRows: a copy of rows[1:]
ParseSheet(rows) == [Headers |-> rows[1], Rows |-> Tail(rows)]

\* dataStore[sheetName] = SheetData{...}
StorePut(store, name, sd) ==
    [n \in DOMAIN store \cup {name} |-> IF n = name THEN sd ELSE store[n]]

\* v, ok := dataStore[name]: the zero SheetData when the name is not a key
Lookup(store, name) == IF name \in DOMAIN store THEN store[name] ELSE NoSheet

\* storeMutex.Lock() is called: sync.RWMutex lets one writer at a time
\* announce itself; from then on new readers wait
CanLockCall(mu) == mu.writer = None /\ mu.pending = None
MutexLockCall(mu, p) == [mu EXCEPT !.pending = p]

\* storeMutex.Lock() returns: the announced writer holds the lock once the
\* readers have left
MutexLock(mu, p) == [mu EXCEPT !.writer = p, !.pending = None]

\* a Lock that does not wait for the readers
CanLockIgnoringReaders(mu, p) == mu.pending = p

CanLock(mu, p) == mu.pending = p /\ mu.readers = {}

\* storeMutex.RLock() returns: no writer holds the lock or has announced
\* itself
MutexRLock(mu, p) == [mu EXCEPT !.readers = @ \cup {p}]
CanRLock(mu) == mu.writer = None /\ mu.pending = None

MutexUnlock(mu, p) == [mu EXCEPT !.writer = None]
MutexRUnlock(mu, p) == [mu EXCEPT !.readers = @ \ {p}]

\* the locals of a request that has not yet assigned them
NoUpload == [file |-> [n \in {} |-> <<>>], todo |-> {}]
NoLookup == [sheetName |-> "", data |-> NoSheet, ok |-> FALSE]

InitServer ==
    /\ CalcIdle
    /\ sheet1Data = NoSheet /\ sheet2Data = NoSheet /\ req = NoRequest
    /\ c1 = 0 /\ c2 = 0 /\ r1 = 0
    /\ keyMap2 = <<>> /\ matches = <<>> /\ matchedPairs = {}
    /\ allMatches = <<>> /\ totalComparisons = 0
    /\ pc = "start"
    /\ found = <<FALSE, FALSE>>
    /\ dataStore = EmptyStore
    /\ storeMutex = FreeMutex
    /\ hpc = [p \in Uploaders \cup DataReaders |-> "start"]
    /\ hloc = [p \in Uploaders \cup DataReaders |->
                   IF p \in Uploaders THEN NoUpload ELSE NoLookup]
    /\ resp = [p \in Uploaders \cup DataReaders |-> 0]

\* uploadHandler, lines 139-143: the method is not POST
UploadBadMethod(u) ==
    /\ hpc[u] = "start"
    /\ resp' = [resp EXCEPT ![u] = 405]
    /\ hpc' = [hpc EXCEPT ![u] = "done"]
    /\ UNCHANGED <<calcVars, engineVars, found, dataStore, storeMutex, hloc>>

\* line 145: storeMutex.Lock() is called
UploadCallLockToClear(u) ==
    /\ hpc[u] = "start"
    /\ CanLockCall(storeMutex)
    /\ storeMutex' = MutexLockCall(storeMutex, u)
    /\ hpc' = [hpc EXCEPT ![u] = "waitclear"]
    /\ UNCHANGED <<calcVars, engineVars, found, dataStore, hloc, resp>>

\* line 145: storeMutex.Lock() returns
UploadLockToClear(u) ==
    /\ hpc[u] = "waitclear"
    /\ CanLock(storeMutex, u)
    /\ storeMutex' = MutexLock(storeMutex, u)
    /\ hpc' = [hpc EXCEPT ![u] = "clear"]
    /\ UNCHANGED <<calcVars, engineVars, found, dataStore, hloc, resp>>

\* line 146: dataStore = make(map[string]SheetData)
UploadClear(u) ==
    /\ hpc[u] = "clear"
    /\ dataStore' = EmptyStore
    /\ hpc' = [hpc EXCEPT ![u] = "unlock"]
    /\ UNCHANGED <<calcVars, engineVars, found, storeMutex, hloc, resp>>

\* line 147: storeMutex.Unlock()
UploadUnlockAfterClear(u) ==
    /\ hpc[u] = "unlock"
    /\ storeMutex' = MutexUnlock(storeMutex, u)
    /\ hpc' = [hpc EXCEPT ![u] = "form"]
    /\ UNCHANGED <<calcVars, engineVars, found, dataStore, hloc, resp>>

\* lines 150-155: r.FormFile fails
UploadNoFormFile(u) ==
    /\ hpc[u] = "form"
    /\ resp' = [resp EXCEPT ![u] = 400]
    /\ hpc' = [hpc EXCEPT ![u] = "done"]
    /\ UNCHANGED <<calcVars, engineVars, found, dataStore, storeMutex, hloc>>

\* lines 159-171: io.Copy or excelize.OpenReader fails
UploadUnreadableFile(u) ==
    /\ hpc[u] = "form"
    /\ resp' = [resp EXCEPT ![u] = 500]
    /\ hpc' = [hpc EXCEPT ![u] = "done"]
    /\ UNCHANGED <<calcVars, engineVars, found, dataStore, storeMutex, hloc>>

\* lines 150-173: the workbook is read and opened
UploadOpenWorkbook(u) ==
    /\ hpc[u] = "form"
    /\ \E f \in Workbooks : hloc' = [hloc EXCEPT ![u] = [file |-> f, todo |-> DOMAIN f]]
    /\ hpc' = [hpc EXCEPT ![u] = "lock"]
    /\ UNCHANGED <<calcVars, engineVars, found, dataStore, storeMutex, resp>>

\* line 174: storeMutex.Lock() is called
UploadCallLockToStore(u) ==
    /\ hpc[u] = "lock"
    /\ CanLockCall(storeMutex)
    /\ storeMutex' = MutexLockCall(storeMutex, u)
    /\ hpc' = [hpc EXCEPT ![u] = "waitstore"]
    /\ UNCHANGED <<calcVars, engineVars, found, dataStore, hloc, resp>>

\* lines 174-175: storeMutex.Lock() returns, its Unlock deferred
UploadLockToStore(u) ==
    /\ hpc[u] = "waitstore"
    /\ CanLock(storeMutex, u)
    /\ storeMutex' = MutexLock(storeMutex, u)
    /\ hpc' = [hpc EXCEPT ![u] = "store"]
    /\ UNCHANGED <<calcVars, engineVars, found, dataStore, hloc, resp>>

\* one round of for _, sheetName := range sheetNames, in the map's order;
\* lines 178-203
UploadStoreSheet(u) ==
    /\ hpc[u] = "store"
    /\ \E name \in hloc[u].todo :
          LET rows == hloc[u].file[name]
          IN  /\ dataStore' = IF Len(rows) = 0 THEN dataStore
                              ELSE StorePut(dataStore, name, ParseSheet(rows))
              /\ hloc' = [hloc EXCEPT ![u].todo = @ \ {name}]
    /\ UNCHANGED <<calcVars, engineVars, found, storeMutex, hpc, resp>>

\* the response without the deferred Unlock
UploadRespondKeepsLock(u) ==
    /\ hpc[u] = "store"
    /\ hloc[u].todo = {}
    /\ resp' = [resp EXCEPT ![u] = 200]
    /\ hpc' = [hpc EXCEPT ![u] = "done"]
    /\ UNCHANGED <<calcVars, engineVars, found, dataStore, storeMutex, hloc>>

\* lines 205-213: the response, and the deferred storeMutex.Unlock()
UploadRespond(u) ==
    /\ hpc[u] = "store"
    /\ hloc[u].todo = {}
    /\ resp' = [resp EXCEPT ![u] = 200]
    /\ storeMutex' = MutexUnlock(storeMutex, u)
    /\ hpc' = [hpc EXCEPT ![u] = "done"]
    /\ UNCHANGED <<calcVars, engineVars, found, dataStore, hloc>>

\* dataHandler, lines 334-338: the path names no sheet
DataBadPath(d) ==
    /\ hpc[d] = "start"
    /\ resp' = [resp EXCEPT ![d] = 400]
    /\ hpc' = [hpc EXCEPT ![d] = "done"]
    /\ UNCHANGED <<calcVars, engineVars, found, dataStore, storeMutex, hloc>>

\* lines 339-341: sheetName := pathParts[3]; storeMutex.RLock()
DataRLock(d) ==
    /\ hpc[d] = "start"
    /\ CanRLock(storeMutex)
    /\ \E name \in DataSheetNames :
          hloc' = [hloc EXCEPT ![d] = [sheetName |-> name, data |-> NoSheet, ok |-> FALSE]]
    /\ storeMutex' = MutexRLock(storeMutex, d)
    /\ hpc' = [hpc EXCEPT ![d] = "read"]
    /\ UNCHANGED <<calcVars, engineVars, found, dataStore, resp>>

\* line 342: data, ok := dataStore[sheetName]
DataRead(d) ==
    /\ hpc[d] = "read"
    /\ hloc' = [hloc EXCEPT ![d].data = Lookup(dataStore, hloc[d].sheetName),
                            ![d].ok = hloc[d].sheetName \in DOMAIN dataStore]
    /\ hpc' = [hpc EXCEPT ![d] = "runlock"]
    /\ UNCHANGED <<calcVars, engineVars, found, dataStore, storeMutex, resp>>

\* line 343: storeMutex.RUnlock()
DataRUnlock(d) ==
    /\ hpc[d] = "runlock"
    /\ storeMutex' = MutexRUnlock(storeMutex, d)
    /\ hpc' = [hpc EXCEPT ![d] = "check"]
    /\ UNCHANGED <<calcVars, engineVars, found, dataStore, hloc, resp>>

\* lines 345-349: the sheet was not found
DataNotFound(d) ==
    /\ hpc[d] = "check" /\ ~ hloc[d].ok
    /\ resp' = [resp EXCEPT ![d] = 404]
    /\ hpc' = [hpc EXCEPT ![d] = "done"]
    /\ UNCHANGED <<calcVars, engineVars, found, dataStore, storeMutex, hloc>>

\* lines 350-361: the sheet is the response
DataRespond(d) ==
    /\ hpc[d] = "check" /\ hloc[d].ok
    /\ resp' = [resp EXCEPT ![d] = 200]
    /\ hpc' = [hpc EXCEPT ![d] = "done"]
    /\ UNCHANGED <<calcVars, engineVars, found, dataStore, storeMutex, hloc>>

\* matchHandler, lines 218-221: the method is not POST
MatchBadMethod ==
    /\ pc = "start"
    /\ pc' = "badmethod"
    /\ UNCHANGED <<calcVars, serverVars, sheet1Data, sheet2Data, req, c1, c2, r1, keyMap2,
                   matches, matchedPairs, allMatches, totalComparisons>>

\* lines 223-228: the body does not decode
MatchBadBody ==
    /\ pc = "start"
    /\ pc' = "badrequest"
    /\ UNCHANGED <<calcVars, serverVars, sheet1Data, sheet2Data, req, c1, c2, r1, keyMap2,
                   matches, matchedPairs, allMatches, totalComparisons>>

\* lines 223-230: the request is decoded
MatchDecode ==
    /\ pc = "start"
    /\ req' \in ServerRequests
    /\ pc' = "rlock"
    /\ UNCHANGED <<calcVars, serverVars, sheet1Data, sheet2Data, c1, c2, r1, keyMap2,
                   matches, matchedPairs, allMatches, totalComparisons>>

\* line 232: storeMutex.RLock()
MatchRLock ==
    /\ pc = "rlock"
    /\ CanRLock(storeMutex)
    /\ storeMutex' = MutexRLock(storeMutex, MatchProc)
    /\ pc' = "read1"
    /\ UNCHANGED <<calcVars, found, dataStore, hpc, hloc, resp, sheet1Data, sheet2Data, req,
                   c1, c2, r1, keyMap2, matches, matchedPairs, allMatches, totalComparisons>>

\* line 233: sheet1Data, ok1 := dataStore[req.Sheet1]
MatchRead1 ==
    /\ pc = "read1"
    /\ sheet1Data' = Lookup(dataStore, req.Sheet1)
    /\ found' = <<req.Sheet1 \in DOMAIN dataStore, found[2]>>
    /\ pc' = "read2"
    /\ UNCHANGED <<calcVars, dataStore, storeMutex, hpc, hloc, resp, sheet2Data, req,
                   c1, c2, r1, keyMap2, matches, matchedPairs, allMatches, totalComparisons>>

\* line 234: sheet2Data, ok2 := dataStore[req.Sheet2]
MatchRead2 ==
    /\ pc = "read2"
    /\ sheet2Data' = Lookup(dataStore, req.Sheet2)
    /\ found' = <<found[1], req.Sheet2 \in DOMAIN dataStore>>
    /\ pc' = "runlock"
    /\ UNCHANGED <<calcVars, dataStore, storeMutex, hpc, hloc, resp, sheet1Data, req,
                   c1, c2, r1, keyMap2, matches, matchedPairs, allMatches, totalComparisons>>

\* line 235: storeMutex.RUnlock()
MatchRUnlock ==
    /\ pc = "runlock"
    /\ storeMutex' = MutexRUnlock(storeMutex, MatchProc)
    /\ pc' = "check"
    /\ UNCHANGED <<calcVars, found, dataStore, hpc, hloc, resp, sheet1Data, sheet2Data, req,
                   c1, c2, r1, keyMap2, matches, matchedPairs, allMatches, totalComparisons>>

\* lines 237-241: one or both sheets not found
MatchNotFound ==
    /\ pc = "check" /\ (~ found[1] \/ ~ found[2])
    /\ pc' = "notfound"
    /\ UNCHANGED <<calcVars, serverVars, sheet1Data, sheet2Data, req, c1, c2, r1, keyMap2,
                   matches, matchedPairs, allMatches, totalComparisons>>

\* the engine started when either sheet was found
MatchStartIfEitherFound ==
    /\ pc = "check" /\ (found[1] \/ found[2])
    /\ allMatches' = <<>>
    /\ totalComparisons' = 0
    /\ matchedPairs' = {}
    /\ c1' = 0
    /\ pc' = "c1loop"
    /\ UNCHANGED <<calcVars, serverVars, sheet1Data, sheet2Data, req, c2, r1, keyMap2,
                   matches>>

\* lines 243-250: both sheets found, the engine starts
MatchStart ==
    /\ pc = "check" /\ ~ (~ found[1] \/ ~ found[2])
    /\ allMatches' = <<>>
    /\ totalComparisons' = 0
    /\ matchedPairs' = {}
    /\ c1' = 0
    /\ pc' = "c1loop"
    /\ UNCHANGED <<calcVars, serverVars, sheet1Data, sheet2Data, req, c2, r1, keyMap2,
                   matches>>

NextServer ==
    \/ \E u \in Uploaders :
          \/ UploadBadMethod(u)
          \/ UploadCallLockToClear(u)
          \/ UploadLockToClear(u)
          \/ UploadClear(u)
          \/ UploadUnlockAfterClear(u)
          \/ UploadNoFormFile(u)
          \/ UploadUnreadableFile(u)
          \/ UploadOpenWorkbook(u)
          \/ UploadCallLockToStore(u)
          \/ UploadLockToStore(u)
          \/ UploadStoreSheet(u)
          \/ UploadRespond(u)
    \/ \E d \in DataReaders :
          \/ DataBadPath(d)
          \/ DataRLock(d)
          \/ DataRead(d)
          \/ DataRUnlock(d)
          \/ DataNotFound(d)
          \/ DataRespond(d)
    \/ MatchBadMethod
    \/ MatchBadBody
    \/ MatchDecode
    \/ MatchRLock
    \/ MatchRead1
    \/ MatchRead2
    \/ MatchRUnlock
    \/ MatchNotFound
    \/ MatchStart
    \/ NextMatch

SpecServer == InitServer /\ [][NextServer]_vars

\* The steps of one request.
UploadStep(u) ==
    \/ UploadBadMethod(u)
    \/ UploadCallLockToClear(u)
    \/ UploadLockToClear(u)
    \/ UploadClear(u)
    \/ UploadUnlockAfterClear(u)
    \/ UploadNoFormFile(u)
    \/ UploadUnreadableFile(u)
    \/ UploadOpenWorkbook(u)
    \/ UploadCallLockToStore(u)
    \/ UploadLockToStore(u)
    \/ UploadStoreSheet(u)
    \/ UploadRespond(u)

DataStep(d) ==
    \/ DataBadPath(d)
    \/ DataRLock(d)
    \/ DataRead(d)
    \/ DataRUnlock(d)
    \/ DataNotFound(d)
    \/ DataRespond(d)

MatchStep ==
    \/ MatchBadMethod
    \/ MatchBadBody
    \/ MatchDecode
    \/ MatchRLock
    \/ MatchRead1
    \/ MatchRead2
    \/ MatchRUnlock
    \/ MatchNotFound
    \/ MatchStart
    \/ NextMatch

\* Every request runs in its own goroutine, which the scheduler keeps
\* running while it can take a step; a goroutine waiting in Lock or RLock is
\* woken when the lock is released.
SpecServerFair ==
    /\ InitServer
    /\ [][NextServer]_vars
    /\ \A u \in Uploaders : WF_vars(UploadStep(u))
    /\ \A d \in DataReaders : WF_vars(DataStep(d))
    /\ WF_vars(MatchStep)

(***************************************************************************)
(* The edit distance as the length of a shortest chain of single-character *)
(* insertions, deletions and substitutions; the yardstick for              *)
(* levenshteinDistance.                                                    *)
(***************************************************************************)
Chars(s) == {s[i] : i \in 1..Len(s)}

Insertions(s, alphabet) ==
    {SubSeq(s, 1, i) \o <<ch>> \o SubSeq(s, i + 1, Len(s)) : i \in 0..Len(s), ch \in alphabet}

Deletions(s) ==
    {SubSeq(s, 1, i - 1) \o SubSeq(s, i + 1, Len(s)) : i \in 1..Len(s)}

Substitutions(s, alphabet) ==
    {[s EXCEPT ![i] = ch] : i \in 1..Len(s), ch \in alphabet}

\* a shortest chain from a to b never passes a string longer than both
OneEdit(s, alphabet, maxLen) ==
    {t \in Insertions(s, alphabet) \cup Deletions(s) \cup Substitutions(s, alphabet) :
        Len(t) <= maxLen}

RECURSIVE WithinEdits(_, _, _, _)
WithinEdits(S, k, alphabet, maxLen) ==
    IF k = 0 THEN S
    ELSE LET P == WithinEdits(S, k - 1, alphabet, maxLen)
         IN  P \cup UNION {OneEdit(s, alphabet, maxLen) : s \in P}

EditDistance(a, b) ==
    LET alphabet == Chars(a) \cup Chars(b)
        maxLen == max(Len(a), Len(b))
    IN  CHOOSE k \in 0..maxLen :
            /\ b \in WithinEdits({a}, k, alphabet, maxLen)
            /\ \A j \in 0..(k - 1) : b \notin WithinEdits({a}, j, alphabet, maxLen)

(***************************************************************************)
(* Claims about levenshteinDistance (SpecLev).                             *)
(***************************************************************************)
\* C7: levenshteinDistance(s1, s2) is the classic Levenshtein distance, the least
\* number of single-character insertions, deletions and substitutions that turn
\* s1 into s2; the distance of a string to itself is 0 and to the empty string
\* its length.
C7_LevenshteinIsEditDistance ==
    call = "levenshteinDistance" =>
        /\ ret = EditDistance(args[1], args[2])
        /\ (args[1] = args[2] => ret = 0)
        /\ (args[2] = <<>> => ret = Len(args[1]))
        /\ (args[1] = <<>> => ret = Len(args[2]))

\* the rolling rows were used more than once and a substitution was the cheapest
C7_Witness ==
    /\ call = "levenshteinDistance"
    /\ Len(args[1]) >= 3 /\ Len(args[2]) >= 3
    /\ args[1] # args[2]
    /\ ret = 2

\* C8: levenshteinDistance is symmetric, levenshteinDistance(a, b) equals
\* levenshteinDistance(b, a), though the rows are sized by the second argument.
C8_LevenshteinSymmetric ==
    call = "levenshteinDistance" => ret = levenshteinDistance(args[2], args[1])

\* arguments of different lengths, so the rows of the two calls differ in size
C8_Witness ==
    /\ call = "levenshteinDistance"
    /\ Len(args[1]) = 1 /\ Len(args[2]) = MaxLevLen
    /\ ret = MaxLevLen

(***************************************************************************)
(* Claims about isFuzzyMatch (SpecFuzzy).                                  *)
(***************************************************************************)
\* the decision rule of the Fuzzy Predicate, on the normalized keys and the edit
\* distance between them
FuzzyRule(v1, v2, threshold) ==
    LET k1 == standardKey(v1)
        k2 == standardKey(v2)
    IN  IF k1 = k2 THEN TRUE
        ELSE IF k1 = <<>> \/ k2 = <<>> THEN FALSE
        ELSE EditDistance(k1, k2) * 100 <= max(Len(k1), Len(k2)) * threshold

\* C5: for every threshold in 0..100, isFuzzyMatch is true when the normalized keys
\* are identical, otherwise false when one of them is empty, otherwise true exactly
\* when d * 100 <= maxLen * threshold; at threshold 0 it is true only for identical
\* normalized keys.
C5_IsFuzzyMatchFollowsRule ==
    call = "isFuzzyMatch" =>
        /\ ret = FuzzyRule(args[1], args[2], args[3])
        /\ (args[3] = 0 => (ret <=> standardKey(args[1]) = standardKey(args[2])))

\* two different non-empty keys exactly on the threshold: d = 1, maxLen = 2, 50
C5_Witness ==
    /\ call = "isFuzzyMatch"
    /\ standardKey(args[1]) # standardKey(args[2])
    /\ Len(standardKey(args[1])) = 2 /\ Len(standardKey(args[2])) = 1
    /\ args[3] = 50
    /\ ret = TRUE

\* C6 as stated: at threshold 100 isFuzzyMatch is true for any two non-empty
\* strings.
C6_AnyTwoNonEmptyStringsMatchAt100 ==
    (call = "isFuzzyMatch" /\ args[3] = 100 /\ args[1] # <<>> /\ args[2] # <<>>)
        => ret = TRUE

\* C6 amended: at threshold 100 isFuzzyMatch is true for any two strings whose
\* normalized keys are both non-empty.
C6_AnyTwoNonEmptyKeysMatchAt100 ==
    (call = "isFuzzyMatch" /\ args[3] = 100
        /\ standardKey(args[1]) # <<>> /\ standardKey(args[2]) # <<>>)
        => ret = TRUE

\* two keys of full length with no character in common match at threshold 100
C6_Witness ==
    /\ call = "isFuzzyMatch" /\ args[3] = 100
    /\ Len(standardKey(args[1])) = MaxRawLen /\ Len(standardKey(args[2])) = MaxRawLen
    /\ Chars(standardKey(args[1])) \cap Chars(standardKey(args[2])) = {}
    /\ ret = TRUE

(***************************************************************************)
(* Claims about the groups of matchHandler (SpecMatch).                    *)
(***************************************************************************)
Range(s) == {s[i] : i \in 1..Len(s)}

HasCell(rows, r, c) == r >= 0 /\ r < Len(rows) /\ c < Len(rows[r + 1])

Cell(rows, r, c) == rows[r + 1][c + 1]

ColumnOf(headers, h) == CHOOSE i \in 0..(Len(headers) - 1) : headers[i + 1] = h

\* the records so far, by column pair: the groups appended and the one in the making
Emitted ==
    {[col1 |-> ColumnOf(sheet1Data.Headers, g.Header1),
      col2 |-> ColumnOf(sheet2Data.Headers, g.Header2),
      ms |-> g.Matches] : g \in Range(allMatches)}
    \cup (IF pc = "rows" THEN {[col1 |-> c1, col2 |-> c2, ms |-> matches]} ELSE {})

\* the records of the response for one column pair
RecordsOf(col1, col2) ==
    LET gs == {g \in Range(allMatches) :
                  /\ ColumnOf(sheet1Data.Headers, g.Header1) = col1
                  /\ ColumnOf(sheet2Data.Headers, g.Header2) = col2}
    IN  IF gs = {} THEN <<>> ELSE (CHOOSE g \in gs : TRUE).Matches

ColumnPairs == (0..(numCols1 - 1)) \X (0..(numCols2 - 1))
RowPairs == (0..(Len(sheet1Data.Rows) - 1)) \X (0..(Len(sheet2Data.Rows) - 1))

\* an exact match: both cells exist, the normalized keys are equal and non-empty
ExactMatchAt(col1, col2, rA, rB) ==
    /\ HasCell(sheet1Data.Rows, rA, col1)
    /\ HasCell(sheet2Data.Rows, rB, col2)
    /\ standardKey(Cell(sheet1Data.Rows, rA, col1)) # <<>>
    /\ standardKey(Cell(sheet1Data.Rows, rA, col1)) = standardKey(Cell(sheet2Data.Rows, rB, col2))

\* the rule of the Fuzzy Predicate holds of the two cells
FuzzyMatchAt(col1, col2, rA, rB) ==
    /\ HasCell(sheet1Data.Rows, rA, col1)
    /\ HasCell(sheet2Data.Rows, rB, col2)
    /\ FuzzyRule(Cell(sheet1Data.Rows, rA, col1), Cell(sheet2Data.Rows, rB, col2),
                 req.FuzzyThreshold)

RecordsFor(ms, rA, rB) ==
    {i \in 1..Len(ms) : ms[i].OriginalRow1 = rA + RowOffset /\ ms[i].OriginalRow2 = rB + RowOffset}

\* C1: the matched pairs are scoped to one column pair: a row pair recorded under
\* one column pair suppresses no record of the same row pair under another, so
\* every row pair that matches under a column pair (exactly, or by the Fuzzy
\* Predicate when fuzzy is on) has its record in the group of that column pair.
C1_NoSuppressionAcrossColumnPairs ==
    pc = "done" =>
        \A cp \in ColumnPairs : \A rp \in RowPairs :
            (\/ ExactMatchAt(cp[1], cp[2], rp[1], rp[2])
             \/ (req.UseFuzzy /\ FuzzyMatchAt(cp[1], cp[2], rp[1], rp[2])
                 /\ standardKey(Cell(sheet1Data.Rows, rp[1], cp[1])) # <<>>))
                => RecordsFor(RecordsOf(cp[1], cp[2]), rp[1], rp[2]) # {}

\* C2: no record of any group pairs two cells whose normalized keys are both
\* empty, with fuzzy on or off and at every threshold.
C2_NoRecordOfTwoBlankCells ==
    \A e \in Emitted : \A i \in 1..Len(e.ms) :
        ~ (standardKey(e.ms[i].Val1) = <<>> /\ standardKey(e.ms[i].Val2) = <<>>)

\* C3: in every group each (OriginalRow1, OriginalRow2) occurs in at most one
\* record, and a pair with an exact record has no fuzzy record in that group.
C3_PairAtMostOncePerGroup ==
    \A e \in Emitted :
        /\ \A i, j \in 1..Len(e.ms) :
              (e.ms[i].OriginalRow1 = e.ms[j].OriginalRow1
                  /\ e.ms[i].OriginalRow2 = e.ms[j].OriginalRow2) => i = j
        /\ \A i, j \in 1..Len(e.ms) :
              (~ e.ms[i].IsFuzzy /\ e.ms[j].IsFuzzy)
                  => \/ e.ms[i].OriginalRow1 # e.ms[j].OriginalRow1
                     \/ e.ms[i].OriginalRow2 # e.ms[j].OriginalRow2

\* fuzzy is on and a finished group holds an exact and a fuzzy record of one A row
C3_Witness ==
    /\ pc = "done" /\ req.UseFuzzy
    /\ \E g \in Range(allMatches) : \E i, j \in 1..Len(g.Matches) :
          /\ ~ g.Matches[i].IsFuzzy /\ g.Matches[j].IsFuzzy
          /\ g.Matches[i].OriginalRow1 = g.Matches[j].OriginalRow1

\* C4: with fuzzy off, the records of every column pair are exactly its exact
\* matches: one record, not fuzzy, for (rowA, rowB) if and only if both cells
\* exist and their normalized keys are equal and non-empty.
C4_ExactRecordsAreExactMatches ==
    (pc = "done" /\ ~ req.UseFuzzy) =>
        \A cp \in ColumnPairs :
            LET ms == RecordsOf(cp[1], cp[2])
            IN  /\ \A i \in 1..Len(ms) :
                      /\ ~ ms[i].IsFuzzy
                      /\ <<ms[i].OriginalRow1 - RowOffset, ms[i].OriginalRow2 - RowOffset>>
                             \in RowPairs
                /\ \A rp \in RowPairs :
                      Cardinality(RecordsFor(ms, rp[1], rp[2])) =
                          IF ExactMatchAt(cp[1], cp[2], rp[1], rp[2]) THEN 1 ELSE 0

\* C9: in every record the two normalized keys are both empty or both non-empty;
\* no record pairs a blank cell with a populated one, at any threshold.
C9_NoRecordOfBlankWithPopulated ==
    \A e \in Emitted : \A i \in 1..Len(e.ms) :
        (standardKey(e.ms[i].Val1) = <<>>) <=> (standardKey(e.ms[i].Val2) = <<>>)

\* fuzzy at threshold 100 has compared a blank cell with a populated one, both ways
C9_Witness ==
    /\ pc = "done" /\ req.UseFuzzy /\ req.FuzzyThreshold = 100
    /\ \E rp \in RowPairs :
          /\ HasCell(sheet1Data.Rows, rp[1], 0) /\ HasCell(sheet2Data.Rows, rp[2], 0)
          /\ standardKey(Cell(sheet1Data.Rows, rp[1], 0)) = <<>>
          /\ standardKey(Cell(sheet2Data.Rows, rp[2], 0)) # <<>>
    /\ \E rp \in RowPairs :
          /\ HasCell(sheet1Data.Rows, rp[1], 0) /\ HasCell(sheet2Data.Rows, rp[2], 0)
          /\ standardKey(Cell(sheet1Data.Rows, rp[1], 0)) # <<>>
          /\ standardKey(Cell(sheet2Data.Rows, rp[2], 0)) = <<>>

\* C10: every record of the group of (c1, c2) has row numbers in range, the
\* zero-based row index plus 2, and carries the raw cells found there.
C10_RecordsCarryRowsAndRawCells ==
    \A e \in Emitted : \A i \in 1..Len(e.ms) :
        LET m == e.ms[i]
            rA == m.OriginalRow1 - RowOffset
            rB == m.OriginalRow2 - RowOffset
        IN  /\ HasCell(sheet1Data.Rows, rA, e.col1)
            /\ HasCell(sheet2Data.Rows, rB, e.col2)
            /\ m.Val1 = Cell(sheet1Data.Rows, rA, e.col1)
            /\ m.Val2 = Cell(sheet2Data.Rows, rB, e.col2)
            /\ ((pc = "rows" /\ e.col1 = c1 /\ e.col2 = c2) => rA < r1)

\* the second column pair's group holds an exact and a fuzzy record of the last rows,
\* the raw cells differing from their keys
C10_Witness ==
    /\ pc = "done" /\ numCols1 = MaxCols /\ numCols2 = MaxCols
    /\ \E g \in Range(allMatches) : \E i, j \in 1..Len(g.Matches) :
          /\ g.Header1 = sheet1Data.Headers[MaxCols] /\ g.Header2 = sheet2Data.Headers[MaxCols]
          /\ ~ g.Matches[i].IsFuzzy /\ g.Matches[j].IsFuzzy
          /\ g.Matches[i].OriginalRow1 = MaxRows - 1 + RowOffset
          /\ g.Matches[j].OriginalRow2 = MaxRows - 1 + RowOffset
          /\ g.Matches[i].Val1 # standardKey(g.Matches[i].Val1)

\* C11: ragged rows are tolerated: the read of line 277 stays inside its row, and a
\* row of A with no cell at c1, or a row of B with no cell at c2, has no record in
\* the group of (c1, c2), in the exact and in the fuzzy pass.
C11_RaggedRowsContributeNothing ==
    /\ pc = "rows" =>
          \A key \in DOMAIN keyMap2 : \A k \in 1..Len(keyMap2[key]) :
              HasCell(sheet2Data.Rows, keyMap2[key][k] - RowOffset, c2)
    /\ \A e \in Emitted : \A rp \in RowPairs :
          (~ HasCell(sheet1Data.Rows, rp[1], e.col1) \/ ~ HasCell(sheet2Data.Rows, rp[2], e.col2))
              => RecordsFor(e.ms, rp[1], rp[2]) = {}

\* fuzzy is on, both sheets have a row shorter than their header list and a row
\* longer than a shorter header list would be, and a group was emitted
C11_Witness ==
    /\ pc = "done" /\ req.UseFuzzy /\ allMatches # <<>>
    /\ \E i \in 1..Len(sheet1Data.Rows) : Len(sheet1Data.Rows[i]) < numCols1
    /\ \E i \in 1..Len(sheet2Data.Rows) : Len(sheet2Data.Rows[i]) < numCols2
    /\ \E i \in 1..Len(sheet2Data.Rows) : sheet2Data.Rows[i] = <<>>

\* C12: within a group the records are in discovery order: non-decreasing A row;
\* for one A row the exact records before the fuzzy ones; the exact records of an
\* A row in increasing B-row order, and so its fuzzy records.
C12_RecordsInDiscoveryOrder ==
    \A e \in Emitted : \A i, j \in 1..Len(e.ms) :
        i < j =>
            /\ e.ms[i].OriginalRow1 <= e.ms[j].OriginalRow1
            /\ e.ms[i].OriginalRow1 = e.ms[j].OriginalRow1 =>
                  /\ ~ (e.ms[i].IsFuzzy /\ ~ e.ms[j].IsFuzzy)
                  /\ (e.ms[i].IsFuzzy = e.ms[j].IsFuzzy
                         => e.ms[i].OriginalRow2 < e.ms[j].OriginalRow2)

\* a group with an exact and then a fuzzy record of one A row, then a later A row
C12_Witness ==
    /\ pc = "done"
    /\ \E g \in Range(allMatches) : \E i, j, k \in 1..Len(g.Matches) :
          /\ i < j /\ j < k
          /\ ~ g.Matches[i].IsFuzzy /\ g.Matches[j].IsFuzzy
          /\ g.Matches[i].OriginalRow1 = g.Matches[j].OriginalRow1
          /\ g.Matches[k].OriginalRow1 > g.Matches[j].OriginalRow1

HasHeader(headers, h) == \E i \in 1..Len(headers) : headers[i] = h

ColumnPairOf(g) ==
    <<ColumnOf(sheet1Data.Headers, g.Header1), ColumnOf(sheet2Data.Headers, g.Header2)>>

LexLess(p, q) == p[1] < q[1] \/ (p[1] = q[1] /\ p[2] < q[2])

\* C13: the groups are in column-pair iteration order: strictly increasing in
\* (columnA, columnB), so at most one group per column pair, each tagged with the
\* two sheet names and the headers of its two columns, all before the pair at hand.
C13_GroupsInColumnPairOrder ==
    /\ \A i \in 1..Len(allMatches) :
          /\ HasHeader(sheet1Data.Headers, allMatches[i].Header1)
          /\ HasHeader(sheet2Data.Headers, allMatches[i].Header2)
          /\ allMatches[i].Tab1 = req.Sheet1 /\ allMatches[i].Tab2 = req.Sheet2
          /\ (pc = "rows" => LexLess(ColumnPairOf(allMatches[i]), <<c1, c2>>))
          /\ (pc = "c2loop" => LexLess(ColumnPairOf(allMatches[i]), <<c1, c2>>))
    /\ \A i, j \in 1..Len(allMatches) :
          i < j => LexLess(ColumnPairOf(allMatches[i]), ColumnPairOf(allMatches[j]))

\* three groups or more, of column pairs of both columns of sheet 1
C13_Witness ==
    /\ pc = "done" /\ Len(allMatches) >= 3
    /\ ColumnPairOf(allMatches[1])[1] < ColumnPairOf(allMatches[Len(allMatches)])[1]

\* C14: no group has an empty Matches list; a column pair without a record adds no
\* group, and the response is empty when no column pair matched.
C14_NoEmptyGroup ==
    /\ \A i \in 1..Len(allMatches) : Len(allMatches[i].Matches) > 0
    /\ Len(allMatches) <= totalComparisons
    /\ (pc = "c2loop" /\ c2 > 0 /\ matches = <<>>) =>
          \A i \in 1..Len(allMatches) : ColumnPairOf(allMatches[i]) # <<c1, c2 - 1>>
    /\ (pc = "done"
         /\ \A cp \in ColumnPairs : \A rp \in RowPairs :
               /\ ~ ExactMatchAt(cp[1], cp[2], rp[1], rp[2])
               /\ ~ (req.UseFuzzy /\ FuzzyMatchAt(cp[1], cp[2], rp[1], rp[2])))
          => allMatches = <<>>

\* all column pairs were compared, some gave a group and some gave none
C14_Witness ==
    /\ pc = "done" /\ totalComparisons = MaxCols * MaxCols
    /\ Len(allMatches) >= 1 /\ Len(allMatches) < totalComparisons
    /\ sheet1Data.Rows # <<>> /\ sheet2Data.Rows # <<>>

\* C18: every record is sound for its flag: an exact record pairs two cells whose
\* normalized keys are equal and non-empty, a fuzzy record two cells of which the
\* Fuzzy Predicate holds at the threshold of the request, and there is no fuzzy
\* record when fuzzy is off.
C18_RecordsSoundForFlag ==
    \A e \in Emitted : \A i \in 1..Len(e.ms) :
        LET m == e.ms[i]
            rA == m.OriginalRow1 - RowOffset
            rB == m.OriginalRow2 - RowOffset
        IN  /\ ~ m.IsFuzzy => ExactMatchAt(e.col1, e.col2, rA, rB)
            /\ m.IsFuzzy => (req.UseFuzzy /\ FuzzyMatchAt(e.col1, e.col2, rA, rB))

\* below threshold 100, a fuzzy record of two different keys beside an exact record
C18_Witness ==
    /\ pc = "done" /\ req.UseFuzzy /\ req.FuzzyThreshold < 100
    /\ \E g \in Range(allMatches) : \E i, j \in 1..Len(g.Matches) :
          /\ ~ g.Matches[i].IsFuzzy
          /\ g.Matches[j].IsFuzzy
          /\ standardKey(g.Matches[j].Val1) # standardKey(g.Matches[j].Val2)

(***************************************************************************)
(* Termination of the matching pass (SpecMatchFair).                       *)
(***************************************************************************)
\* one step of the pass visits the next row or the next column pair, in order
VisitsInOrder ==
    /\ r1' # r1 =>
          \/ (pc = "rows" /\ pc' = "rows" /\ r1 < Len(sheet1Data.Rows) /\ r1' = r1 + 1)
          \/ (pc = "c2loop" /\ pc' = "rows" /\ r1' = 0)
    /\ (pc = "rows" /\ pc' # "rows") => (r1 = Len(sheet1Data.Rows) /\ c2' = c2 + 1)
    /\ totalComparisons' # totalComparisons =>
          /\ totalComparisons = c1 * numCols2 + c2
          /\ totalComparisons' = totalComparisons + 1
          /\ c1 < numCols1 /\ c2 < numCols2
    /\ c1' # c1 => (c1' = c1 + 1 /\ c2 = numCols2)

\* C17: a matching pass once started runs to completion: it visits every column
\* pair once and, for each, every A row once, in order; it always has a next step
\* of its own until it responds, and it does respond.
C17_MatchRunsToCompletion ==
    /\ <>(pc = "done")
    /\ [](pc # "done" => ENABLED NextMatch)
    /\ [](pc = "done" => (c1 = numCols1 /\ totalComparisons = numCols1 * numCols2))
    /\ [][VisitsInOrder]_vars

\* the pass has responded after all column pairs of two full sheets, fuzzy on
C17_Witness ==
    /\ pc = "done" /\ req.UseFuzzy
    /\ totalComparisons = MaxCols * MaxCols
    /\ Len(sheet1Data.Rows) = MaxRows /\ Len(sheet2Data.Rows) = MaxRows
    /\ allMatches # <<>>

(***************************************************************************)
(* The server claims, under SpecServer.                                    *)
(***************************************************************************)
EnginePcs == {"c1loop", "c2loop", "rows", "done"}

ReadLockedPcs == {"read1", "read2", "runlock"}

\* The groups of lines 243-324 run in one piece on sheets s1 and s2.
RECURSIVE RunRows(_, _, _, _, _, _, _, _)
RunRows(s1, s2, rq, col1, col2, r, ms, mp) ==
    IF r >= Len(s1.Rows)
    THEN [matches |-> ms, matchedPairs |-> mp]
    ELSE LET out == RowBody(s1.Rows[r + 1], r + RowOffset, col1, col2,
                            BuildKeyMap2(s2.Rows, col2), s2.Rows,
                            rq.UseFuzzy, rq.FuzzyThreshold, ms, mp)
         IN  RunRows(s1, s2, rq, col1, col2, r + 1, out.matches, out.matchedPairs)

RECURSIVE RunPairs(_, _, _, _, _, _)
RunPairs(s1, s2, rq, k, groups, mp) ==
    LET n1 == Len(s1.Headers)
        n2 == Len(s2.Headers)
    IN  IF k >= n1 * n2
        THEN groups
        ELSE LET col1 == k \div n2
                 col2 == k % n2
                 out  == RunRows(s1, s2, rq, col1, col2, 0, <<>>, mp)
             IN  RunPairs(s1, s2, rq, k + 1,
                          AppendGroup(groups, out.matches, rq, s1.Headers, s2.Headers,
                                      col1, col2),
                          out.matchedPairs)

SequentialRun(s1, s2, rq) == RunPairs(s1, s2, rq, 0, <<>>, {})

\* C15: a match computation works on a private, stable snapshot.  While the
\* handler holds the read lock (lines 232-235) no step changes the store and
\* no writer holds the lock, so at the end of the locked section both
\* datasets are the store's entries of one and the same store; after their
\* reads the two datasets never change, whatever the uploads do; and the
\* groups returned are those of an undisturbed run on the two datasets.
C15_MatchWorksOnStableSnapshot ==
    /\ [](pc \in ReadLockedPcs =>
             MatchProc \in storeMutex.readers /\ storeMutex.writer = None)
    /\ [][(pc \in ReadLockedPcs) => dataStore' = dataStore]_vars
    /\ [](pc = "runlock" =>
             /\ sheet1Data = Lookup(dataStore, req.Sheet1)
             /\ sheet2Data = Lookup(dataStore, req.Sheet2))
    /\ [][sheet1Data' # sheet1Data => (pc = "read1" /\ pc' = "read2")]_vars
    /\ [][sheet2Data' # sheet2Data => (pc = "read2" /\ pc' = "runlock")]_vars
    /\ [][dataStore' # dataStore =>
             UNCHANGED <<sheet1Data, sheet2Data, req, found, engineVars>>]_vars
    /\ [](pc = "done" => allMatches = SequentialRun(sheet1Data, sheet2Data, req))

\* a computation has returned groups although the store was cleared or
\* replaced after its reads
C15_Witness ==
    /\ pc = "done"
    /\ allMatches # <<>>
    /\ Lookup(dataStore, req.Sheet1) # sheet1Data
    /\ Lookup(dataStore, req.Sheet2) # sheet2Data
    /\ \E u \in Uploaders : hpc[u] \in {"form", "lock", "waitstore", "store", "done"}

\* C16: a match request naming a dataset that is not in the store at the
\* time of the lookup is rejected before the engine runs.  ok1 and ok2 say
\* whether the names are keys of the store at the lookup; with either false
\* the only step is the "not found" response, which has no group and no
\* comparison; the engine's loop positions are reached only with both true;
\* no step of the match request changes the store.
C16_MissingDatasetRejected ==
    /\ [](pc \in {"read2", "runlock"} => found[1] = (req.Sheet1 \in DOMAIN dataStore))
    /\ [](pc = "runlock" => found[2] = (req.Sheet2 \in DOMAIN dataStore))
    /\ [][(pc = "check" /\ (~ found[1] \/ ~ found[2]) /\ pc' # pc) => pc' = "notfound"]_vars
    /\ [](pc = "notfound" =>
             /\ ~ found[1] \/ ~ found[2]
             /\ allMatches = <<>> /\ totalComparisons = 0)
    /\ [][pc = "notfound" => pc' = "notfound"]_vars
    /\ [](pc \in EnginePcs => found[1] /\ found[2])
    /\ [][pc' # pc => dataStore' = dataStore]_vars

\* a request is rejected whose first sheet is in the store and whose second
\* is not
C16_Witness ==
    /\ pc = "notfound"
    /\ found = <<TRUE, FALSE>>
    /\ req.Sheet1 \in DOMAIN dataStore
    /\ req.Sheet2 \notin DOMAIN dataStore

\* the store after an upload of workbook f alone
Stored(f) ==
    [name \in {n \in DOMAIN f : Len(f[n]) > 0} |-> ParseSheet(f[name])]

SameStore(a, b) == DOMAIN a = DOMAIN b /\ \A n \in DOMAIN a : a[n] = b[n]

\* C19: once all concurrent uploads have finished (here: with success), the
\* store holds the sheets of exactly one uploaded file, never a union of the
\* sheets of two uploads.
C19_StoreHoldsOneUploadedFile ==
    (\A u \in Uploaders : hpc[u] = "done" /\ resp[u] = 200)
        => \E u \in Uploaders : SameStore(dataStore, Stored(hloc[u].file))

\* C20: replacing the store is atomic for readers.  With one upload
\* finished with success and another one past its last failure point but
\* not yet storing, a data or match request at the end of its read-locked
\* section has seen the complete contents of the finished upload.
C20_ReadersSeeCompleteStore ==
    \A u, v \in Uploaders :
        (u # v /\ hpc[u] = "done" /\ resp[u] = 200 /\ hpc[v] = "lock")
            => LET old == Stored(hloc[u].file)
               IN  /\ \A d \in DataReaders :
                          hpc[d] = "runlock" =>
                              /\ hloc[d].ok = (hloc[d].sheetName \in DOMAIN old)
                              /\ hloc[d].data = Lookup(old, hloc[d].sheetName)
                   /\ pc = "runlock" =>
                          /\ found = <<req.Sheet1 \in DOMAIN old, req.Sheet2 \in DOMAIN old>>
                          /\ sheet1Data = Lookup(old, req.Sheet1)
                          /\ sheet2Data = Lookup(old, req.Sheet2)

ErrorStatuses == {400, 405, 500}

\* C21: an upload request that fails leaves the data store unchanged.  With
\* one upload finished with success and the other finished with an error
\* response, the store still holds the sheets of the successful one.
C21_FailedUploadLeavesStore ==
    \A u, v \in Uploaders :
        (/\ u # v
         /\ hpc[u] = "done" /\ resp[u] = 200
         /\ hpc[v] = "done" /\ resp[v] \in ErrorStatuses)
            => SameStore(dataStore, Stored(hloc[u].file))

WriterPcs == {"clear", "unlock", "store"}

ReaderPcs == {"read", "runlock"}

MatchReturnedPcs == {"done", "notfound", "badmethod", "badrequest"}

AllReturned ==
    /\ \A p \in Uploaders \cup DataReaders : hpc[p] = "done"
    /\ pc \in MatchReturnedPcs

\* C22: the store lock is used safely by all handlers under any
\* interleaving.  A writer holds the lock alone; an upload holds it exactly
\* in its two critical sections, a data request and a match request hold the
\* read lock exactly around their lookups, so that a returned request holds
\* nothing and the engine runs with no lock; the store changes only in a
\* step of the upload that holds the lock with no reader inside, and it is
\* read only under the read lock with no writer inside; and every request
\* returns in the end, after which the lock is free.
C22_StoreLockUsedSafely ==
    /\ [](storeMutex.writer # None => storeMutex.readers = {})
    /\ [](\A u \in Uploaders : (storeMutex.writer = u) <=> (hpc[u] \in WriterPcs))
    /\ [](\A d \in DataReaders : (d \in storeMutex.readers) <=> (hpc[d] \in ReaderPcs))
    /\ []((MatchProc \in storeMutex.readers) <=> (pc \in ReadLockedPcs))
    /\ [](pc \in EnginePcs => MatchProc \notin storeMutex.readers)
    /\ [][dataStore' # dataStore =>
             /\ storeMutex.writer \in Uploaders
             /\ storeMutex.readers = {}
             /\ hpc[storeMutex.writer] \in {"clear", "store"}
             /\ \A p \in (Uploaders \cup DataReaders) \ {storeMutex.writer} :
                    hpc'[p] = hpc[p]
             /\ pc' = pc]_vars
    /\ [][\A d \in DataReaders :
             (hpc[d] = "read" /\ hpc'[d] # "read") =>
                 (d \in storeMutex.readers /\ storeMutex.writer = None)]_vars
    /\ [][(sheet1Data' # sheet1Data \/ sheet2Data' # sheet2Data \/ found' # found) =>
             (MatchProc \in storeMutex.readers /\ storeMutex.writer = None)]_vars
    /\ [](AllReturned => storeMutex = FreeMutex)
    /\ <>AllReturned

\* an upload waits in Lock while the data request and the match request hold
\* the read lock, the other upload having returned an error
C22_Witness ==
    /\ storeMutex.pending \in Uploaders
    /\ storeMutex.readers = DataReaders \cup {MatchProc}
    /\ \E v \in Uploaders : hpc[v] = "done" /\ resp[v] \in ErrorStatuses

=============================================================================
